---- MODULE Spec2Model ----
(***************************************************************************)
(* Options Curator of OptionsWiz: the request handler get_options_chain    *)
(* of backend/app/main.py, one request against one snapshot of the market  *)
(* data provider.  The handler is a straight line of provider calls, clock *)
(* reads and list transformations; each block of it is one action, and pc  *)
(* is the handler's position.                                              *)
(*                                                                         *)
(* Dates are day numbers, the clock counts ticks (TicksPerDay ticks a day, *)
(* tick 0 of a day being midnight).  Prices and strikes are integers and   *)
(* the factors 0.9 and 1.1 are the exact fractions 9/10 and 11/10; the     *)
(* binary rounding of the products is not modelled.                        *)
(***************************************************************************)
EXTENDS Integers, Sequences, FiniteSets

VARIABLES
    expiration,        \* request parameter `expiration` (line 28)
    info,              \* provider: ticker.info
    provExpirations,   \* provider: ticker.options
    provChain,         \* provider: ticker.option_chain(exp_date), calls and puts
    failAt,            \* provider call that raises ("none": no call raises)
    now,               \* the wall clock, in ticks
    pc,                \* position of the handler
    current_price,     \* local of line 36
    expirations,       \* local of line 43
    exp_date,          \* local of lines 53/59/67
    calls,             \* local of lines 79/103
    puts,              \* local of lines 80/104
    days_to_exp,       \* local of line 108
    relevant_calls,    \* local of line 113
    relevant_puts,     \* local of line 118
    nowAt,             \* the clock value each pd.Timestamp.now() returned
    fetched,           \* provider calls made so far
    response,          \* what the handler returned
    client             \* display client: what it rendered from the response

vars == <<expiration, info, provExpirations, provChain, failAt, now, pc,
          current_price, expirations, exp_date, calls, puts, days_to_exp,
          relevant_calls, relevant_puts, nowAt, fetched, response, client>>

----------------------------------------------------------------------------
(* Bounds of the model *)

TicksPerDay == 2
MaxDrift == 1
MaxExpLen == 2
MaxChainLen == 1
MaxLongExp == 14
MaxLongChain == 12

(* Program constants *)

StrikeLimit == 10
ExpirationLimit == 12
HorizonDays == 180

----------------------------------------------------------------------------
(* Values *)

\* A Python value of a record field: a float (finite, nan, inf, -inf), None,
\* or a value of another type (str).
Fin(v) == [kind |-> "fin", val |-> v]
NaN == [kind |-> "nan", val |-> 0]
PosInf == [kind |-> "pinf", val |-> 0]
NegInf == [kind |-> "ninf", val |-> 0]
None == [kind |-> "none", val |-> 0]
Str(n) == [kind |-> "str", val |-> n]
Absent == [kind |-> "absent", val |-> 0]

\* A date string: the day it denotes and the way it is written.
Iso(d) == [day |-> d, form |-> "iso"]
Slash(d) == [day |-> d, form |-> "slash"]
NoDate == [day |-> 0, form |-> "none"]
EmptyStr == [day |-> 0, form |-> "empty"]

Min(a, b) == IF a <= b THEN a ELSE b

Take(s, n) == SubSeq(s, 1, Min(n, Len(s)))

Symbol == "aapl"

upper(s) == IF s = "aapl" THEN "AAPL" ELSE s

----------------------------------------------------------------------------
(* Pure parts of the handler *)

\* bool(x) of a str or None parameter
Truthy(s) == s.form \notin {"none", "empty"}

\* info.get("currentPrice", info.get("regularMarketPrice"))
ResolvePrice(i) ==
    IF i.currentPrice.kind # "absent" THEN i.currentPrice
    ELSE IF i.regularMarketPrice.kind # "absent" THEN i.regularMarketPrice
    ELSE None

\* `not current_price`
PriceFalsy(p) == p.kind = "none" \/ (p.kind = "fin" /\ p.val = 0)

\* membership by the date denoted instead of by the string
IsAvailable_ByDate(exp, exps) == \E n \in 1..Len(exps) : exps[n].day = exp.day

\* `expiration in expirations`: equality of the strings
IsAvailable(exp, exps) == \E n \in 1..Len(exps) : exps[n] = exp

\* pd.to_datetime(exp).date()
to_date(s) == s.day

\* pd.Timestamp.now().date()
DateOf(t) == t \div TicksPerDay

\* the loop of lines 63-69: index of the first entry dated after today, 0 if none
RECURSIVE FirstFutureFrom(_, _, _)
FirstFutureFrom(exps, today, i) ==
    IF i > Len(exps) THEN 0
    ELSE IF to_date(exps[i]) > today THEN i
    ELSE FirstFutureFrom(exps, today, i + 1)

\* a scan that takes a today-dated entry for a future one
FirstFuture_Today(exps, today) == FirstFutureFrom(exps, today - 1, 1)

FirstFuture(exps, today) == FirstFutureFrom(exps, today, 1)

IsNonFinite(v) == v.kind \in {"nan", "pinf", "ninf"}

\* a sanitizer that looks for nan only
clean_item_NanOnly(item) ==
    [key \in DOMAIN item |-> IF item[key].kind = "nan" THEN None ELSE item[key]]

clean_item(item) ==
    [key \in DOMAIN item |->
        IF item[key].kind \in {"fin", "nan", "pinf", "ninf"}
        THEN IF IsNonFinite(item[key]) THEN None ELSE item[key]
        ELSE item[key]]

\* no sanitizing before the strike band is applied
clean_float_values_Skipped(data_list) == data_list

clean_float_values(data_list) ==
    [n \in 1..Len(data_list) |-> clean_item(data_list[n])]

\* the difference of the calendar dates
DaysBetween_Calendar(exp, t) == to_date(exp) - DateOf(t)

\* (pd.to_datetime(exp_date) - pd.Timestamp.now()).days
DaysBetween(exp, t) == (to_date(exp) * TicksPerDay - t) \div TicksPerDay

\* the comparison of lines 115/120 raises TypeError on a None strike; with a
\* nan or infinite strike it is evaluated and the chained comparison is false
StrikeComparable(c) == c.strike.kind \in {"fin", "nan", "pinf", "ninf"}

\* a band that leaves its two ends out
InBand_Open(price, c) ==
    /\ c.strike.kind = "fin"
    /\ price * 9 < c.strike.val * 10
    /\ c.strike.val * 10 < price * 11

InBand(price, c) ==
    /\ c.strike.kind = "fin"
    /\ price * 9 <= c.strike.val * 10
    /\ c.strike.val * 10 <= price * 11

\* the list comprehension of lines 113-116: the contracts in the band, in the
\* order of the list
Filter(price, list) == SelectSeq(list, LAMBDA c : InBand(price, c))

relevant(price, list) == Take(Filter(price, list), StrikeLimit)

\* cutoffs that belong to the upper category
categorize_expiration_Strict(days_until_exp) ==
    IF days_until_exp < 7 THEN "weekly"
    ELSE IF days_until_exp < 30 THEN "short-term"
    ELSE IF days_until_exp < 90 THEN "monthly"
    ELSE IF days_until_exp < HorizonDays THEN "quarterly"
    ELSE "long-term"

categorize_expiration(days_until_exp) ==
    IF days_until_exp <= 7 THEN "weekly"
    ELSE IF days_until_exp <= 30 THEN "short-term"
    ELSE IF days_until_exp <= 90 THEN "monthly"
    ELSE IF days_until_exp <= HorizonDays THEN "quarterly"
    ELSE "long-term"

\* int(days_until_exp * 5/7)
trading_days(days_until_exp) == (days_until_exp * 5) \div 7

ExpirationInfo(exp, today, selected) ==
    [date |-> exp,
     days_until_expiration |-> to_date(exp) - today,
     category |-> categorize_expiration(to_date(exp) - today),
     is_current |-> (exp = selected),
     formatted_date |-> [day |-> to_date(exp), form |-> "pretty"],
     trading_days_approx |-> trading_days(to_date(exp) - today)]

InHorizon(days_until_exp) == 0 < days_until_exp /\ days_until_exp <= HorizonDays

\* the loop of lines 143-158
InHorizonAt(exp, today) == InHorizon(to_date(exp) - today)

Enrich(exps, today, selected) ==
    [k \in 1..Len(SelectSeq(exps, LAMBDA e : InHorizonAt(e, today))) |->
        ExpirationInfo(SelectSeq(exps, LAMBDA e : InHorizonAt(e, today))[k],
                       today, selected)]

\* sorted(..., key=days_until_expiration), a stable sort: entry n goes behind
\* the entries with a smaller key and the earlier entries with the same key
RankByDays(s, n) ==
    Cardinality({m \in 1..Len(s) :
                    s[m].days_until_expiration < s[n].days_until_expiration})
    + Cardinality({m \in 1..n :
                    s[m].days_until_expiration = s[n].days_until_expiration})

\* a sort that puts the farthest expiration first
SortByDays_Descending(s) ==
    [p \in 1..Len(s) |->
        s[CHOOSE n \in 1..Len(s) : RankByDays(s, n) = Len(s) + 1 - p]]

SortByDays(s) ==
    [p \in 1..Len(s) |-> s[CHOOSE n \in 1..Len(s) : RankByDays(s, n) = p]]

\* the list cut to 12 entries before it is sorted
smart_CutFirst(exps, today, selected) ==
    SortByDays(Take(Enrich(exps, today, selected), ExpirationLimit))

smart(exps, today, selected) ==
    Take(SortByDays(Enrich(exps, today, selected)), ExpirationLimit)

----------------------------------------------------------------------------
(* Responses *)

ErrorPayload(msg, arg) == [error |-> [msg |-> msg, arg |-> arg]]

MsgNoOptions == "No options data available for this symbol"
MsgNotAvailable == "Expiration date {expiration} not available for {symbol}"
MsgNoActive == "No active (non-expired) options available for this symbol"
ExcNoPrice == "404: Stock price not found"
ExcProvider == "provider failure"
ExcTypeError == "'<=' not supported between instances of 'float' and 'NoneType'"

\* an exception that leaves the handler: the framework answers 500
Caught_Escapes(msg) == [status_code |-> 500, detail |-> msg]

\* lines 175-180: every exception becomes an error payload
Caught(msg) == ErrorPayload("Internal error: " \o msg, NoDate)

NoResponse == [pending |-> TRUE]

----------------------------------------------------------------------------
(* The display client: the expiration selector of streamlit_app.py *)

NotRendered ==
    [view |-> "none", current_index |-> 0, selected_exp_date |-> NoDate,
     refetch |-> FALSE]

\* lines 119-122: the label of an entry, the text built from these fields
Label(exp_info) ==
    [formatted_date |-> exp_info.formatted_date,
     days |-> exp_info.days_until_expiration,
     category |-> exp_info.category,
     is_current |-> exp_info.is_current]

\* lines 103-125: exp_labels, one label an entry
exp_labels(available_exps) ==
    [k \in 1..Len(available_exps) |-> Label(available_exps[k])]

\* exp_options, a dict: its keys in insertion order are the first occurrences
\* of the labels, and the value of a key is the date written last under it
FirstOccurrences(available_exps) ==
    {k \in 1..Len(available_exps) :
        \A j \in 1..(k - 1) : Label(available_exps[j]) # Label(available_exps[k])}

exp_options(available_exps, label) ==
    available_exps[CHOOSE k \in 1..Len(available_exps) :
                      /\ Label(available_exps[k]) = label
                      /\ \A j \in (k + 1)..Len(available_exps) :
                            Label(available_exps[j]) # label].date

\* lines 127-132: the place, counted from 1, of the first item of exp_options
\* whose date is the current one; the first item if there is none
current_index(available_exps, current_exp_date) ==
    LET hits == {k \in FirstOccurrences(available_exps) :
                    exp_options(available_exps, Label(available_exps[k]))
                        = current_exp_date}
    IN IF hits = {} THEN 1
       ELSE Cardinality({j \in FirstOccurrences(available_exps) :
                            \A k \in hits : j <= k})

\* lines 134-141: the selectbox shows exp_labels[current_index] until the user
\* picks another label
selected_exp_date(available_exps, current_exp_date) ==
    exp_options(available_exps,
                exp_labels(available_exps)[
                    current_index(available_exps, current_exp_date)])

----------------------------------------------------------------------------
(* The requests and provider snapshots the model runs the handler on *)

Contract(sym, strike, iv) ==
    [contractSymbol |-> Str(sym), strike |-> strike, impliedVolatility |-> iv]

Range(s) == {s[n] : n \in 1..Len(s)}

SeqsUpTo(S, n) == UNION {[1..k -> S] : k \in 0..n}

DayDomain == {-1, 0, 1, 7, 8, 30, 31, 90, 91, 180, 181}

ShortExps == SeqsUpTo({Iso(d) : d \in DayDomain}, MaxExpLen)

\* a list of n dates base+1 .. base+n, in an order set by the multiplier m
\* (with repeated dates when m and n+1 share a factor)
LongExpList(n, m, base) == [k \in 1..n |-> Iso(base + ((k * m) % (n + 1)))]

LongExps ==
    {LongExpList(n, m, base) :
        n \in (ExpirationLimit + 1)..MaxLongExp, m \in {1, 3, 11}, base \in {0, 168}}

Requests == {Iso(-1), Iso(1), Iso(8), Slash(8), Iso(50), Iso(181)}

\* the lists that requests naming an expiration are run on
RequestedExps ==
    SeqsUpTo({Iso(d) : d \in {-1, 1, 8, 181}}, MaxExpLen) \cup LongExps

FloatDomain == {Fin(25), NaN, PosInf, NegInf}

StrikeDomain == {Fin(89), Fin(90), Fin(100), Fin(110), Fin(111), NaN, PosInf}

\* every strike with a finite implied volatility, every implied volatility
\* with a strike in the band, and a contract with neither
ContractDomain ==
    {Contract(1, s, Fin(25)) : s \in StrikeDomain}
    \cup {Contract(1, Fin(100), iv) : iv \in FloatDomain}
    \cup {Contract(1, NaN, NaN)}

ShortChains == SeqsUpTo(ContractDomain, MaxChainLen)

\* n contracts with strikes base, base+2, ..., in an order set by m; every
\* fourth one has no implied volatility
LongChainList(n, m, base) ==
    [k \in 1..n |->
        Contract(k, Fin(base + 2 * ((k * m) % (n + 1))),
                 IF k % 4 = 0 THEN NaN ELSE Fin(25))]

LongChains ==
    {LongChainList(n, m, base) :
        n \in (StrikeLimit + 1)..MaxLongChain, m \in {1, 5, 7}, base \in {88, 100}}

\* the example of the strike band: strikes 130 .. 170 around a price of 150
ExampleChain ==
    [k \in 1..7 |->
        Contract(k, Fin(<<130, 140, 145, 150, 155, 160, 170>>[k]), Fin(25))]

PlainChains == {<<>>, <<Contract(1, Fin(100), Fin(25))>>, LongChainList(11, 1, 88)}

\* more than 10 contracts in the band and behind them one with no finite strike
BadTailChains ==
    {Append(LongChainList(StrikeLimit + 1, 1, 88), Contract(99, s, Fin(25))) :
        s \in {NaN, NegInf}}

RichChains == ShortChains \cup LongChains \cup BadTailChains \cup {ExampleChain}

PriceDomain == {Absent, None, Fin(0), Fin(100), Fin(150)}

DefaultInfo == [currentPrice |-> Fin(100), regularMarketPrice |-> Absent]

DefaultExps == <<Iso(-1), Iso(0), Iso(3), Iso(40)>>

DefaultChain == [calls |-> <<Contract(1, Fin(100), Fin(25))>>, puts |-> <<>>]

\* requests that differ in the expiration asked for and the provider's list
InitExpirations ==
    /\ \/ /\ expiration \in {NoDate, EmptyStr}
          /\ provExpirations \in ShortExps \cup LongExps
       \/ /\ expiration \in Requests
          /\ provExpirations \in RequestedExps
    /\ info = DefaultInfo
    /\ provChain = DefaultChain
    /\ failAt = "none"

\* requests that differ in the option chain the provider holds
InitChain ==
    /\ expiration = NoDate
    /\ provExpirations = DefaultExps
    /\ info \in {[currentPrice |-> p, regularMarketPrice |-> Absent] :
                    p \in {Fin(100), Fin(150)}}
    /\ provChain \in
          {[calls |-> c, puts |-> p] : c \in RichChains, p \in PlainChains}
          \cup {[calls |-> c, puts |-> p] : c \in PlainChains, p \in RichChains}
    /\ failAt = "none"

\* requests that differ in the price fields and in the provider call that fails
InitPrice ==
    /\ expiration \in {NoDate, Iso(3), Iso(5)}
    /\ provExpirations \in {<<>>, <<Iso(0)>>, DefaultExps}
    /\ info \in [currentPrice : PriceDomain, regularMarketPrice : PriceDomain]
    /\ provChain \in {DefaultChain,
                      [calls |-> <<>>, puts |-> <<Contract(1, NaN, Fin(25))>>]}
    /\ failAt \in {"none", "info", "options", "chain"}

Init ==
    /\ InitExpirations \/ InitChain \/ InitPrice
    /\ now \in 0..(TicksPerDay - 1)
    /\ pc = "info"
    /\ current_price = None
    /\ expirations = <<>>
    /\ exp_date = NoDate
    /\ calls = <<>>
    /\ puts = <<>>
    /\ days_to_exp = 0
    /\ relevant_calls = <<>>
    /\ relevant_puts = <<>>
    /\ nowAt = [l60 |-> -1, l108 |-> -1, l141 |-> -1]
    /\ fetched = {}
    /\ response = NoResponse
    /\ client = NotRendered

----------------------------------------------------------------------------
(* The handler *)

world == <<expiration, info, provExpirations, provChain, failAt>>

\* lines 35-40: ticker.info, the price, HTTPException(404) caught at line 175
GetTickerInfo ==
    /\ pc = "info"
    /\ fetched' = fetched \cup {"info"}
    /\ IF failAt = "info"
       THEN /\ response' = Caught(ExcProvider)
            /\ pc' = "done"
            /\ UNCHANGED current_price
       ELSE /\ current_price' = ResolvePrice(info)
            /\ IF PriceFalsy(ResolvePrice(info))
               THEN response' = Caught(ExcNoPrice) /\ pc' = "done"
               ELSE response' = response /\ pc' = "options"
    /\ UNCHANGED <<world, client, now, expirations, exp_date, calls, puts, days_to_exp,
                   relevant_calls, relevant_puts, nowAt>>

\* lines 43-47: ticker.options
GetExpirations ==
    /\ pc = "options"
    /\ fetched' = fetched \cup {"options"}
    /\ IF failAt = "options"
       THEN /\ response' = Caught(ExcProvider)
            /\ pc' = "done"
            /\ UNCHANGED expirations
       ELSE /\ expirations' = provExpirations
            /\ IF provExpirations = <<>>
               THEN response' = ErrorPayload(MsgNoOptions, NoDate) /\ pc' = "done"
               ELSE response' = response /\ pc' = "select"
    /\ UNCHANGED <<world, client, now, current_price, exp_date, calls, puts, days_to_exp,
                   relevant_calls, relevant_puts, nowAt>>

\* lines 50-56: the caller named an expiration
UseRequested ==
    /\ pc = "select"
    /\ Truthy(expiration)
    /\ IF IsAvailable(expiration, expirations)
       THEN /\ exp_date' = expiration
            /\ pc' = "chain"
            /\ UNCHANGED response
       ELSE /\ response' = ErrorPayload(MsgNotAvailable, expiration)
            /\ pc' = "done"
            /\ UNCHANGED exp_date
    /\ UNCHANGED <<world, client, now, current_price, expirations, calls, puts,
                   days_to_exp, relevant_calls, relevant_puts, nowAt, fetched>>

\* a scan that fails with the error of the empty list
ScanExpirations_NoOptions ==
    /\ pc = "select"
    /\ ~Truthy(expiration)
    /\ \E t \in now..(now + MaxDrift) :
          /\ now' = t
          /\ nowAt' = [nowAt EXCEPT !.l60 = t]
          /\ LET found == FirstFuture(expirations, DateOf(t))
             IN IF found = 0
                THEN /\ exp_date' = NoDate
                     /\ response' = ErrorPayload(MsgNoOptions, NoDate)
                     /\ pc' = "done"
                ELSE /\ exp_date' = expirations[found]
                     /\ pc' = "chain"
                     /\ UNCHANGED response
    /\ UNCHANGED <<world, client, current_price, expirations, calls, puts, days_to_exp,
                   relevant_calls, relevant_puts, fetched>>

\* lines 57-72: the first expiration dated after today
ScanExpirations ==
    /\ pc = "select"
    /\ ~Truthy(expiration)
    /\ \E t \in now..(now + MaxDrift) :
          /\ now' = t
          /\ nowAt' = [nowAt EXCEPT !.l60 = t]
          /\ LET found == FirstFuture(expirations, DateOf(t))
             IN IF found = 0
                THEN /\ exp_date' = NoDate
                     /\ response' = ErrorPayload(MsgNoActive, NoDate)
                     /\ pc' = "done"
                ELSE /\ exp_date' = expirations[found]
                     /\ pc' = "chain"
                     /\ UNCHANGED response
    /\ UNCHANGED <<world, client, current_price, expirations, calls, puts, days_to_exp,
                   relevant_calls, relevant_puts, fetched>>

\* lines 75-82: ticker.option_chain(exp_date)
FetchOptionChain ==
    /\ pc = "chain"
    /\ fetched' = fetched \cup {"chain"}
    /\ IF failAt = "chain"
       THEN /\ response' = Caught(ExcProvider)
            /\ pc' = "done"
            /\ UNCHANGED <<calls, puts>>
       ELSE /\ calls' = provChain.calls
            /\ puts' = provChain.puts
            /\ pc' = "clean"
            /\ UNCHANGED response
    /\ UNCHANGED <<world, client, now, current_price, expirations, exp_date, days_to_exp,
                   relevant_calls, relevant_puts, nowAt>>

\* lines 85-121: sanitize, days to expiration, strike band
CleanAndFilter ==
    /\ pc = "clean"
    /\ calls' = clean_float_values(calls)
    /\ puts' = clean_float_values(puts)
    /\ \E t \in now..(now + MaxDrift) :
          /\ now' = t
          /\ nowAt' = [nowAt EXCEPT !.l108 = t]
          /\ days_to_exp' = DaysBetween(exp_date, t)
    /\ IF \A n \in 1..Len(calls') : StrikeComparable(calls'[n])
       THEN relevant_calls' = relevant(current_price.val, calls')
       ELSE UNCHANGED relevant_calls
    /\ IF \A c \in Range(calls') \cup Range(puts') : StrikeComparable(c)
       THEN /\ relevant_puts' = relevant(current_price.val, puts')
            /\ pc' = "smart"
            /\ UNCHANGED response
       ELSE /\ response' = Caught(ExcTypeError)
            /\ pc' = "done"
            /\ UNCHANGED relevant_puts
    /\ UNCHANGED <<world, client, current_price, expirations, exp_date, fetched>>

\* lines 139-173: the expiration list with metadata, the response
EnrichAndReturn ==
    /\ pc = "smart"
    /\ \E t \in now..(now + MaxDrift) :
          /\ now' = t
          /\ nowAt' = [nowAt EXCEPT !.l141 = t]
          /\ response' =
                [symbol |-> upper(Symbol),
                 current_price |-> current_price,
                 expiration_date |-> exp_date,
                 days_to_expiration |-> days_to_exp,
                 calls |-> relevant_calls,
                 puts |-> relevant_puts,
                 available_expirations |-> smart(expirations, DateOf(t), exp_date)]
    /\ pc' = "done"
    /\ UNCHANGED <<world, client, current_price, expirations, exp_date, calls, puts,
                   days_to_exp, relevant_calls, relevant_puts, fetched>>

\* streamlit_app.py lines 86-146: the first rendering of the page, which asks
\* for the chain with no expiration and has the selector at its default
RenderSelector ==
    /\ pc = "done"
    /\ expiration = NoDate
    /\ client = NotRendered
    /\ client' =
          IF "error" \in DOMAIN response
          THEN [NotRendered EXCEPT !.view = "error"]
          ELSE IF Len(response.available_expirations) > 1
          THEN [view |-> "selector",
                current_index |->
                    current_index(response.available_expirations,
                                  response.expiration_date),
                selected_exp_date |->
                    selected_exp_date(response.available_expirations,
                                      response.expiration_date),
                refetch |->
                    selected_exp_date(response.available_expirations,
                                      response.expiration_date)
                        # response.expiration_date]
          ELSE [NotRendered EXCEPT !.view = "plain"]
    /\ UNCHANGED <<world, now, pc, current_price, expirations, exp_date, calls,
                   puts, days_to_exp, relevant_calls, relevant_puts, nowAt,
                   fetched, response>>

get_options_chain ==
    \/ GetTickerInfo
    \/ GetExpirations
    \/ UseRequested
    \/ ScanExpirations
    \/ FetchOptionChain
    \/ CleanAndFilter
    \/ EnrichAndReturn

Next == get_options_chain \/ RenderSelector

Spec == Init /\ [][Next]_vars

----------------------------------------------------------------------------
(* Properties *)

Done == pc = "done"

FullKeys ==
    {"symbol", "current_price", "expiration_date", "days_to_expiration",
     "calls", "puts", "available_expirations"}

Success == Done /\ DOMAIN response = FullKeys

ErrorIs(msg) ==
    Done /\ DOMAIN response = {"error"} /\ response.error.msg = msg

\* ScanExpirations has acted; Today60 is the date it read at line 60
ScanActed == nowAt.l60 # -1

Today60 == DateOf(nowAt.l60)

HasFuture ==
    \E n \in 1..Len(provExpirations) : to_date(provExpirations[n]) > Today60

Ascending(exps) ==
    \A m, n \in 1..Len(exps) : m < n => to_date(exps[m]) < to_date(exps[n])

\* C1, as stated: with no expiration requested and a provider list holding a
\* date after today, the selected date is after today and no date of the list
\* that is after today is earlier than it, whatever the order of the list.
C1_EarliestAnyOrder ==
    (ScanActed /\ HasFuture) =>
        /\ IsAvailable(exp_date, provExpirations)
        /\ to_date(exp_date) > Today60
        /\ \A n \in 1..Len(provExpirations) :
              to_date(provExpirations[n]) > Today60
                  => to_date(provExpirations[n]) >= to_date(exp_date)

\* C1, amended: the selected date is the first entry, in provider order, that
\* is dated after today (every entry before it is today or past); it is the
\* earliest future date of the list when the list is in ascending date order.
C1_FirstFutureInOrder ==
    (ScanActed /\ HasFuture) =>
        /\ \E i \in 1..Len(provExpirations) :
              /\ exp_date = provExpirations[i]
              /\ to_date(provExpirations[i]) > Today60
              /\ \A j \in 1..(i - 1) : to_date(provExpirations[j]) <= Today60
        /\ Ascending(provExpirations) =>
              \A n \in 1..Len(provExpirations) :
                  to_date(provExpirations[n]) > Today60
                      => to_date(provExpirations[n]) >= to_date(exp_date)

\* the scan skipped a past and a today-dated entry and took a later one
C1_Witness ==
    /\ ScanActed
    /\ Len(provExpirations) >= 3
    /\ to_date(provExpirations[1]) < Today60
    /\ to_date(provExpirations[2]) = Today60
    /\ exp_date = provExpirations[3]
    /\ pc = "chain"

\* the provider's contracts, numbered, whose strike is inside the band
InBandIndexes(price, list) ==
    {n \in 1..Len(list) :
        /\ list[n].strike.kind = "fin"
        /\ price * 9 <= list[n].strike.val * 10
        /\ list[n].strike.val * 10 <= price * 11}

\* the k-th smallest member of a set of indexes
Nth(indexes, k) ==
    CHOOSE n \in indexes : Cardinality({m \in indexes : m <= n}) = k

\* `out` is the first min(10, n) in-band contracts of `list`, in the order of
\* `list`, each as sanitized
IsBandPrefix(out, price, list) ==
    /\ Len(out) = Min(10, Cardinality(InBandIndexes(price, list)))
    /\ \A k \in 1..Len(out) :
          out[k] = [key \in DOMAIN list[Nth(InBandIndexes(price, list), k)] |->
                       IF list[Nth(InBandIndexes(price, list), k)][key].kind
                              \in {"nan", "pinf", "ninf"}
                       THEN None
                       ELSE list[Nth(InBandIndexes(price, list), k)][key]]

\* C2: in a successful response calls is the first min(10, n) contracts, in
\* provider order, of the provider's calls whose strike lies in
\* [price*0.9, price*1.1], both ends included, and puts is the same of the
\* provider's puts; so every returned strike is in the band, neither list is
\* longer than 10, and neither depends on the other's input.
C2_BandPrefix ==
    Success =>
        /\ IsBandPrefix(response.calls, response.current_price.val, provChain.calls)
        /\ IsBandPrefix(response.puts, response.current_price.val, provChain.puts)
        /\ \A c \in Range(response.calls) \cup Range(response.puts) :
              /\ response.current_price.val * 9 <= c.strike.val * 10
              /\ c.strike.val * 10 <= response.current_price.val * 11
        /\ Len(response.calls) <= 10
        /\ Len(response.puts) <= 10

\* more than 10 calls are in the band, some are outside it, both ends of the
\* band are among the strikes returned, and the provider's order is not the
\* order of the strikes
C2_Witness ==
    /\ Success
    /\ Cardinality(InBandIndexes(response.current_price.val, provChain.calls)) > 10
    /\ Cardinality(InBandIndexes(response.current_price.val, provChain.calls))
          < Len(provChain.calls)
    /\ Len(response.calls) = 10
    /\ \E c \in Range(response.calls) :
          c.strike.val * 10 = response.current_price.val * 9
    /\ \E c \in Range(response.calls) :
          c.strike.val * 10 = response.current_price.val * 11
    /\ \E k \in 1..9 : response.calls[k].strike.val > response.calls[k + 1].strike.val

\* CleanAndFilter has acted: calls and puts hold the sanitized records
CleanActed == nowAt.l108 # -1

NonFiniteKinds == {"nan", "pinf", "ninf"}

\* `cleaned` is `raw` with every nan, inf and -inf replaced by None and nothing
\* else changed: the same records in the same order with the same keys
IsSanitized(cleaned, raw) ==
    /\ Len(cleaned) = Len(raw)
    /\ \A n \in 1..Len(raw) :
          /\ DOMAIN cleaned[n] = DOMAIN raw[n]
          /\ \A key \in DOMAIN raw[n] :
                IF raw[n][key].kind \in NonFiniteKinds
                THEN cleaned[n][key] = None
                ELSE cleaned[n][key] = raw[n][key]

\* C3: clean_float_values maps every NaN, +infinity and -infinity field to
\* null and leaves every other value, the keys and the number and order of the
\* records as they were; applied to its own output it returns that output; and
\* no contract field of a successful response is non-finite.
C3_Sanitization ==
    /\ CleanActed =>
          /\ IsSanitized(calls, provChain.calls)
          /\ IsSanitized(puts, provChain.puts)
          /\ clean_float_values(calls) = calls
          /\ clean_float_values(puts) = puts
    /\ Success =>
          \A c \in Range(response.calls) \cup Range(response.puts) :
              \A key \in DOMAIN c : c[key].kind \notin NonFiniteKinds

\* a call with an infinite implied volatility came back with null in its place
C3_Witness ==
    /\ Success
    /\ \E n \in 1..Len(provChain.calls) :
          /\ provChain.calls[n].impliedVolatility.kind = "pinf"
          /\ calls[n].impliedVolatility = None
          /\ calls[n].strike = provChain.calls[n].strike
          /\ calls[n] \in Range(response.calls)

\* C4: an entry of available_expirations with days_until_expiration d is weekly
\* for d <= 7, short-term for 8..30, monthly for 31..90, quarterly for 91..180,
\* and its trading_days_approx is floor(d * 5 / 7).
C4_CategoryAndTradingDays ==
    Success =>
        \A e \in Range(response.available_expirations) :
            /\ e.days_until_expiration <= 7 => e.category = "weekly"
            /\ (8 <= e.days_until_expiration /\ e.days_until_expiration <= 30)
                  => e.category = "short-term"
            /\ (31 <= e.days_until_expiration /\ e.days_until_expiration <= 90)
                  => e.category = "monthly"
            /\ (91 <= e.days_until_expiration /\ e.days_until_expiration <= 180)
                  => e.category = "quarterly"
            /\ 7 * e.trading_days_approx <= 5 * e.days_until_expiration
            /\ 5 * e.days_until_expiration < 7 * (e.trading_days_approx + 1)

\* expirations 7 and 8 days away were listed, on the two sides of a cutoff
C4_Witness ==
    /\ Success
    /\ \E e \in Range(response.available_expirations) :
          e.days_until_expiration = 7 /\ e.category = "weekly"
              /\ e.trading_days_approx = 5
    /\ \E e \in Range(response.available_expirations) :
          e.days_until_expiration = 8 /\ e.category = "short-term"
              /\ e.trading_days_approx = 5

\* the selection step has acted on a non-empty expiration list (the price was
\* valid and the list was fetched)
PastSelect == expirations # <<>> /\ pc \in {"chain", "clean", "smart", "done"}

\* C5: a requested expiration that is not in the provider's non-empty list,
\* with a valid price, gives the error payload of ExpirationNotAvailable with
\* the error field alone and the option chain is not fetched; a requested
\* expiration that is in the list is the selected expiration.
C5_RequestedExpiration ==
    (PastSelect /\ Truthy(expiration)) =>
        IF \E n \in 1..Len(provExpirations) : provExpirations[n] = expiration
        THEN exp_date = expiration /\ ~ErrorIs(MsgNotAvailable)
        ELSE /\ ErrorIs(MsgNotAvailable)
             /\ response.error.arg = expiration
             /\ "chain" \notin fetched
             /\ calls = <<>> /\ puts = <<>>

\* the request named a date the provider lists, spelled another way: it is not
\* a member of the list and the request failed
C5_Witness ==
    /\ PastSelect
    /\ Truthy(expiration)
    /\ \E n \in 1..Len(provExpirations) :
          to_date(provExpirations[n]) = to_date(expiration)
    /\ ErrorIs(MsgNotAvailable)
    /\ fetched = {"info", "options"}

\* the positions of the handler from which it takes a further step
Running == pc \in {"info", "options", "select", "chain", "clean", "smart"}

\* C6: every execution ends with the full response (all seven fields, no error
\* field) or with a payload that holds the error field alone, whatever the
\* provider returned or raised; nothing else leaves the handler, and before
\* its end the handler has returned nothing and has a further step to take.
C6_TwoOutcomes ==
    /\ Done => (DOMAIN response = FullKeys \/ DOMAIN response = {"error"})
    /\ ~Done => (DOMAIN response = {"pending"} /\ Running)

\* the option chain call raised after the price and the expirations were
\* fetched, and the request ended with the error payload
C6_Witness ==
    /\ Done
    /\ failAt = "chain"
    /\ fetched = {"info", "options", "chain"}
    /\ exp_date # NoDate
    /\ DOMAIN response = {"error"}

NoPriceAvailable == ErrorIs("Internal error: " \o ExcNoPrice)

ProviderFailure == ErrorIs("Internal error: " \o ExcProvider)

\* the price was resolved: ticker.info was read and did not raise
PriceResolved == "info" \in fetched /\ failAt # "info"

\* C7: a null resolved price fails with NoPriceAvailable, an outcome that is
\* none of the other errors, before the expiration list or the option chain is
\* fetched; a resolved price that is not null never gives NoPriceAvailable.
C7_NoPriceIffNull ==
    /\ (PriceResolved /\ ResolvePrice(info) = None) =>
          /\ NoPriceAvailable
          /\ fetched = {"info"}
          /\ ~ProviderFailure
          /\ response.error.msg
                \notin {MsgNoOptions, MsgNotAvailable, MsgNoActive}
    /\ (PriceResolved /\ ResolvePrice(info) # None) => ~NoPriceAvailable

AllExpired ==
    \A n \in 1..Len(provExpirations) : to_date(provExpirations[n]) <= Today60

\* the request named no expiration, the price is valid and the provider
\* answered the first two calls
NoRequestValidPrice ==
    /\ Done
    /\ ~Truthy(expiration)
    /\ failAt \notin {"info", "options"}
    /\ ~PriceFalsy(ResolvePrice(info))

\* C8: with a valid price and no requested expiration, an empty provider list
\* gives NoOptionsAvailable and a non-empty list whose dates are all today or
\* past gives NoActiveExpirations; the two are different errors and neither
\* arises under another condition.
C8_EmptyVsExpired ==
    /\ NoRequestValidPrice =>
          /\ provExpirations = <<>> => ErrorIs(MsgNoOptions)
          /\ (provExpirations # <<>> /\ AllExpired) => ErrorIs(MsgNoActive)
    /\ ErrorIs(MsgNoOptions) => provExpirations = <<>>
    /\ ErrorIs(MsgNoActive) =>
          /\ provExpirations # <<>>
          /\ ~Truthy(expiration)
          /\ ScanActed
          /\ AllExpired
    /\ MsgNoOptions # MsgNoActive

\* a list of a past and a today-dated expiration gave NoActiveExpirations
C8_Witness ==
    /\ NoRequestValidPrice
    /\ ErrorIs(MsgNoActive)
    /\ \E n \in 1..Len(provExpirations) : to_date(provExpirations[n]) = Today60
    /\ \E n \in 1..Len(provExpirations) : to_date(provExpirations[n]) < Today60

\* the date read at line 141 and the difference of each provider date from it
Today141 == DateOf(nowAt.l141)

DaysUntil(n) == to_date(provExpirations[n]) - Today141

Qualifying ==
    {n \in 1..Len(provExpirations) : 0 < DaysUntil(n) /\ DaysUntil(n) <= 180}

Max(a, b) == IF a >= b THEN a ELSE b

\* C9: available_expirations comes from the whole provider list: its entries
\* are dates of the list with 0 < days_until_expiration <= 180 (the difference
\* of the calendar dates), in ascending order of days_until_expiration, at most
\* 12 of them, and of more than 12 qualifying dates the 12 nearest are kept.
C9_NearestTwelve ==
    Success =>
        LET A == response.available_expirations
        IN /\ Len(A) = Min(12, Cardinality(Qualifying))
           /\ \A k \in 1..Len(A) :
                 /\ \E n \in Qualifying :
                       /\ A[k].date = provExpirations[n]
                       /\ A[k].days_until_expiration = DaysUntil(n)
                 /\ 0 < A[k].days_until_expiration
                 /\ A[k].days_until_expiration <= 180
           /\ \A j, k \in 1..Len(A) :
                 j < k => A[j].days_until_expiration <= A[k].days_until_expiration
           /\ \A n \in Qualifying :
                 Cardinality({k \in 1..Len(A) :
                                 A[k].days_until_expiration = DaysUntil(n)})
                    = Min(Cardinality({m \in Qualifying : DaysUntil(m) = DaysUntil(n)}),
                          Max(0, 12 - Cardinality({m \in Qualifying :
                                                      DaysUntil(m) < DaysUntil(n)})))

\* more than 12 dates of a list that is not in date order qualified and 12
\* were returned
C9_Witness ==
    /\ Success
    /\ Cardinality(Qualifying) > 12
    /\ \E m, n \in 1..Len(provExpirations) :
          m < n /\ to_date(provExpirations[m]) > to_date(provExpirations[n])
    /\ Len(response.available_expirations) = 12

\* the clock read of line 108
AtMidnight108 == nowAt.l108 % TicksPerDay = 0

DaysFromToday108 == to_date(response.expiration_date) - DateOf(nowAt.l108)

\* days_to_expiration is the floor, in days, of the time from the moment read
\* at line 108 to the midnight that starts the selected date: d - 1 after
\* midnight and d at midnight, d being the difference of the calendar dates
FloorOfTimestampDifference ==
    /\ TicksPerDay * response.days_to_expiration
          <= to_date(response.expiration_date) * TicksPerDay - nowAt.l108
    /\ to_date(response.expiration_date) * TicksPerDay - nowAt.l108
          < TicksPerDay * (response.days_to_expiration + 1)
    /\ response.days_to_expiration =
          IF AtMidnight108 THEN DaysFromToday108 ELSE DaysFromToday108 - 1

\* C10, as stated: days_to_expiration is that floor and so, when the time of
\* day is after midnight, one less than the days_until_expiration reported for
\* the same date in available_expirations.
C10_OneLessThanListed ==
    Success =>
        /\ FloorOfTimestampDifference
        /\ ~AtMidnight108 =>
              \A e \in Range(response.available_expirations) :
                  e.date = response.expiration_date
                      => response.days_to_expiration = e.days_until_expiration - 1

\* C10, amended: days_to_expiration is that floor; it is one less than the
\* days_until_expiration listed for the same date when the time of day is after
\* midnight and the calendar date has not changed between the clock reads of
\* lines 108 and 141.
C10_OneLessSameDay ==
    Success =>
        /\ FloorOfTimestampDifference
        /\ (~AtMidnight108 /\ DateOf(nowAt.l141) = DateOf(nowAt.l108)) =>
              \A e \in Range(response.available_expirations) :
                  e.date = response.expiration_date
                      => response.days_to_expiration = e.days_until_expiration - 1

\* after midnight, the selected date is listed with one day more than
\* days_to_expiration
C10_Witness ==
    /\ Success
    /\ ~AtMidnight108
    /\ DateOf(nowAt.l141) = DateOf(nowAt.l108)
    /\ \E e \in Range(response.available_expirations) :
          /\ e.date = response.expiration_date
          /\ e.is_current
          /\ response.days_to_expiration = e.days_until_expiration - 1

\* the clock reads of lines 60 and 141, the first and the last of a request
\* that names no expiration, fell on one calendar date
SameDay == DateOf(nowAt.l60) = DateOf(nowAt.l141)

\* C11: with no expiration requested, a provider list in ascending date order
\* without repeats, one calendar date for the whole request and a selected
\* expiration at most 180 days away, the selected expiration is the first entry
\* of available_expirations and the only entry with is_current true, is_current
\* being true of an entry exactly when its date is the response's
\* expiration_date; the display client then finds the current selection at the
\* head of its selector and fetches nothing again.
C11_SelectedIsFirstAndCurrent ==
    (/\ Success
     /\ ~Truthy(expiration)
     /\ Ascending(provExpirations)
     /\ SameDay
     /\ to_date(response.expiration_date) - Today141 <= 180) =>
        /\ Len(response.available_expirations) >= 1
        /\ response.available_expirations[1].date = response.expiration_date
        /\ \A k \in 1..Len(response.available_expirations) :
              /\ response.available_expirations[k].is_current <=> (k = 1)
              /\ response.available_expirations[k].is_current
                    <=> (response.available_expirations[k].date
                            = response.expiration_date)
        /\ client.view = "selector" =>
              /\ client.current_index = 1
              /\ client.selected_exp_date = response.expiration_date
              /\ ~client.refetch

\* an ascending list with a past and a today-dated entry: the selector was shown
\* with the selected expiration first of several and nothing was fetched again
C11_Witness ==
    /\ Success
    /\ ~Truthy(expiration)
    /\ Ascending(provExpirations)
    /\ SameDay
    /\ to_date(provExpirations[1]) < Today60
    /\ Len(response.available_expirations) >= 2
    /\ Len(response.available_expirations) < Len(provExpirations)
    /\ response.available_expirations[1].is_current
    /\ client.view = "selector"
    /\ client.current_index = 1
    /\ ~client.refetch

\* a contract of the fetched chain has a strike that is not finite
HasNonFiniteStrike ==
    \E c \in Range(provChain.calls) \cup Range(provChain.puts) :
        c.strike.kind \in NonFiniteKinds

\* C12: sanitization runs before the strike band, so a call or put of the
\* selected chain with a non-finite strike, wherever it stands in its list, has
\* its strike made null, the band comparison raises, and the request returns
\* the error payload alone, with no calls, puts or expirations; the contract is
\* not dropped with the rest returned.
C12_NonFiniteStrikeFailsRequest ==
    (CleanActed /\ HasNonFiniteStrike) =>
        /\ \A n \in 1..Len(provChain.calls) :
              provChain.calls[n].strike.kind \in NonFiniteKinds
                  => calls[n].strike = None
        /\ \A n \in 1..Len(provChain.puts) :
              provChain.puts[n].strike.kind \in NonFiniteKinds
                  => puts[n].strike = None
        /\ ErrorIs("Internal error: " \o ExcTypeError)
        /\ ~Success

\* the only non-finite strike stands behind more than 10 calls that are in the
\* band, and the request failed
C12_Witness ==
    /\ CleanActed
    /\ Len(provChain.calls) > 11
    /\ provChain.calls[Len(provChain.calls)].strike.kind \in NonFiniteKinds
    /\ \A n \in 1..11 :
          /\ provChain.calls[n].strike.kind = "fin"
          /\ current_price.val * 9 <= provChain.calls[n].strike.val * 10
          /\ provChain.calls[n].strike.val * 10 <= current_price.val * 11
    /\ ErrorIs("Internal error: " \o ExcTypeError)

====
